---------------------------- MODULE Spec2Model ----------------------------
(***************************************************************************)
(* numerox/metrics.py: per-era metrics, per-name summary metrics,          *)
(* concordance and the name/tournament split of pair labels.               *)
(*                                                                         *)
(* Number representation.  TLA+ has no reals, so                           *)
(*   - a prediction yhat is an integer number of thousandths (0..1000);    *)
(*   - logloss, auc, acc, ymin, ymax, ymean, ystd are integer thousandths, *)
(*     rounded down.  Rounding down keeps every comparison `v < B` with an *)
(*     integer B exact: floor(v) < B  iff  v < B;                          *)
(*   - a ratio that a claim is about (consis, concord) is an exact         *)
(*     fraction <<numerator, denominator>>;                                *)
(*   - NaN is the value NaN below; every real value is >= 0.               *)
(* An exception leaving a function is a result record with exc # "none".   *)
(***************************************************************************)
EXTENDS Integers, Sequences, FiniteSets, TLC

VARIABLES data, prediction, arrays, frame, heap, pc, call, ret

vars == <<data, prediction, arrays, frame, heap, pc, call, ret>>

-----------------------------------------------------------------------------
(* Bounds of the model *)

\* join scenarios: number of index rows of the dataset / prediction
MaxRow == 2
\* scoring scenarios: number of eras, each holding two rows
MaxEra == 2
\* calc_metrics_arrays: longest y / yhat array
MaxLen == 3
\* add_split_pairs: most rows of the input table
MaxPairRows == 3
\* concordance: rows of the validation region
MaxConcRow == 2

-----------------------------------------------------------------------------
(* Values *)

NaN == -1
None == "None"
LOGLOSS_BENCHMARK == 693

\* prediction scores that occur, in thousandths
YhatVals == {250, 500, 750}

\* -ln(p) in millionths for p = yhat / 1000
NegLnMicro(p) ==
  CASE p = 250 -> 1386294
    [] p = 500 -> 693147
    [] p = 750 -> 287682

\* a label-set is known by an integer code (written here as the numeral "1",
\* "2") or by its name
TournamentNames == {"bernie", "elizabeth"}

\* nx.tournament_str: a code becomes its name, a name stays
tournament_str(t) ==
  CASE t = "1" -> "bernie"
    [] t = "2" -> "elizabeth"
    [] OTHER -> t

\* nx.tournament_all(as_str=True)
tournament_all == <<"bernie", "elizabeth">>

\* keys of ERA_INT_TO_STR / REGION_INT_TO_STR: NaN is no key
EraCodes == 1..(MaxEra + 1)
RegionCodes == 0..3
ERA_INT_TO_STR(e) == <<"era", e>>
REGION_INT_TO_STR(r) ==
  CASE r = 0 -> "train" [] r = 1 -> "validation" [] r = 2 -> "test" [] r = 3 -> "live"

-----------------------------------------------------------------------------
(* Sequence helpers *)

Range(s) == {s[i] : i \in 1..Len(s)}

Contains(s, x) == \E i \in 1..Len(s) : s[i] = x

RECURSIVE SumSeq(_)
SumSeq(s) == IF s = <<>> THEN 0 ELSE Head(s) + SumSeq(Tail(s))

RECURSIVE FilterSeq(_, _)
FilterSeq(s, keep) ==
  IF s = <<>> THEN <<>>
  ELSE IF Head(s) \in keep THEN <<Head(s)>> \o FilterSeq(Tail(s), keep)
       ELSE FilterSeq(Tail(s), keep)

\* pandas unique(): distinct values in order of first appearance
RECURSIVE unique(_)
unique(s) ==
  IF s = <<>> THEN <<>>
  ELSE LET u == unique(SubSeq(s, 1, Len(s) - 1))
           x == s[Len(s)]
       IN IF Contains(u, x) THEN u ELSE Append(u, x)

SeqMin(s) == CHOOSE x \in Range(s) : \A z \in Range(s) : x <= z
SeqMax(s) == CHOOSE x \in Range(s) : \A z \in Range(s) : x >= z

Isqrt(n) == CHOOSE r \in 0..1000 : r * r <= n /\ (r + 1) * (r + 1) > n

HasNaN(s) == Contains(s, NaN)

-----------------------------------------------------------------------------
(* sklearn / numpy statistics as calc_metrics_arrays calls them.           *)
(* Each returns [exc, v]: exc = "ValueError" when the library raises.      *)

Raise(e) == [exc |-> e, v |-> NaN]
Value(x) == [exc |-> "none", v |-> x]

SingleClass(y) == Cardinality(Range(y)) < 2

\* sklearn.metrics.log_loss(y, yhat): rejects NaN input and a y with one label
log_loss(y, yhat) ==
  IF HasNaN(y) \/ HasNaN(yhat) \/ SingleClass(y) THEN Raise("ValueError")
  ELSE LET n == Len(y)
           term(i) == IF y[i] = 1 THEN NegLnMicro(yhat[i])
                                  ELSE NegLnMicro(1000 - yhat[i])
       IN Value(SumSeq([i \in 1..n |-> term(i)]) \div (1000 * n))

\* sklearn.metrics.roc_auc_score(y, yhat): rejects NaN and a y with one class
roc_auc_score(y, yhat) ==
  IF HasNaN(y) \/ HasNaN(yhat) \/ SingleClass(y) THEN Raise("ValueError")
  ELSE LET n == Len(y)
           pos == {i \in 1..n : y[i] = 1}
           neg == {i \in 1..n : y[i] = 0}
           gt == Cardinality({pr \in pos \X neg : yhat[pr[1]] > yhat[pr[2]]})
           tie == Cardinality({pr \in pos \X neg : yhat[pr[1]] = yhat[pr[2]]})
       IN Value(((2 * gt + tie) * 500) \div (Cardinality(pos) * Cardinality(neg)))

\* variant: yh[yhat > 0.5] = 1
threshold_strict(yhat) ==
  [i \in 1..Len(yhat) |-> IF yhat[i] # NaN /\ yhat[i] > 500 THEN 1 ELSE 0]

\* yh = np.zeros(yhat.size); yh[yhat >= 0.5] = 1   (NaN >= 0.5 is False)
threshold(yhat) == [i \in 1..Len(yhat) |-> IF yhat[i] # NaN /\ yhat[i] >= 500 THEN 1 ELSE 0]

\* sklearn.metrics.accuracy_score(y, yh): rejects NaN in y; one class is fine
accuracy_score(y, yh) ==
  IF HasNaN(y) THEN Raise("ValueError")
  ELSE LET n == Len(y)
       IN Value((Cardinality({i \in 1..n : y[i] = yh[i]}) * 1000) \div n)

\* numpy reductions propagate NaN
ymin(yhat) == IF HasNaN(yhat) THEN NaN ELSE SeqMin(yhat)
ymax(yhat) == IF HasNaN(yhat) THEN NaN ELSE SeqMax(yhat)
ymean(yhat) == IF HasNaN(yhat) THEN NaN ELSE SumSeq(yhat) \div Len(yhat)
ystd(yhat) ==
  IF HasNaN(yhat) THEN NaN
  ELSE LET n == Len(yhat)
           s == SumSeq(yhat)
           sq == SumSeq([i \in 1..n |-> yhat[i] * yhat[i]])
       IN Isqrt(n * sq - s * s) \div n

\* try: m = f(...)  except ValueError: m = np.nan
OrNaN(r) == IF r.exc = "ValueError" THEN NaN ELSE r.v

\* one branch of the if/elif chain of calc_metrics_arrays
calc_one(y, yhat, col) ==
  CASE col = "logloss" -> Value(OrNaN(log_loss(y, yhat)))
    [] col = "logloss_pass" ->
         LET r == log_loss(y, yhat)
         IN Value(IF r.exc = "ValueError" THEN NaN
                  ELSE IF r.v < LOGLOSS_BENCHMARK THEN 1 ELSE 0)
    [] col = "auc" -> Value(OrNaN(roc_auc_score(y, yhat)))
    [] col = "acc" -> Value(OrNaN(accuracy_score(y, threshold(yhat))))
    [] col = "ymin" -> Value(ymin(yhat))
    [] col = "ymax" -> Value(ymax(yhat))
    [] col = "ymean" -> Value(ymean(yhat))
    [] col = "ystd" -> Value(ystd(yhat))
    [] col = "length" -> Value(Len(yhat))
    [] OTHER -> Raise("ValueError")

\* calc_metrics_arrays(y, yhat, columns): the list of values, or the raise
RECURSIVE calc_metrics_arrays(_, _, _)
calc_metrics_arrays(y, yhat, columns) ==
  IF columns = <<>> THEN Value(<<>>)
  ELSE LET m == calc_one(y, yhat, Head(columns))
       IN IF m.exc # "none" THEN Raise(m.exc)
          ELSE LET rest == calc_metrics_arrays(y, yhat, Tail(columns))
               IN IF rest.exc # "none" THEN Raise(rest.exc)
                  ELSE Value(<<m.v>> \o rest.v)

-----------------------------------------------------------------------------
(* Tables.  A DataFrame is [columns, index, rows]: the column names in     *)
(* order, the row labels, and one function from column name to cell per    *)
(* row.                                                                    *)

DataFrame(columns, index, rows) == [columns |-> columns, index |-> index, rows |-> rows]

NoTable == DataFrame(<<>>, <<>>, <<>>)

Column(df, c) == [i \in 1..Len(df.rows) |-> df.rows[i][c]]

\* df.insert(0, name, values): fails when the column exists already
insert0(df, name, values) ==
  IF Contains(df.columns, name) THEN [exc |-> "ValueError", df |-> df]
  ELSE [exc |-> "none",
        df |-> DataFrame(<<name>> \o df.columns, df.index,
                         [i \in 1..Len(df.rows) |-> (name :> values[i]) @@ df.rows[i]])]

\* variant: 'name' inserted before 'tournament'
add_split_pairs_name_first(df, as_str) ==
  LET pairs == IF Contains(df.columns, "pair") THEN Column(df, "pair") ELSE df.index
  IN IF pairs = <<>> THEN [exc |-> "ValueError", df |-> df]
     ELSE LET name == [i \in 1..Len(pairs) |-> pairs[i][1]]
              tournament == [i \in 1..Len(pairs) |->
                               IF as_str THEN tournament_str(pairs[i][2]) ELSE pairs[i][2]]
              t == insert0(df, "name", name)
          IN IF t.exc # "none" THEN t ELSE insert0(t.df, "tournament", tournament)

\* add_split_pairs(df, as_str): the frame is changed in place and returned;
\* `name, tournament = zip(*pairs)` cannot unpack an empty pair list
add_split_pairs(df, as_str) ==
  LET pairs == IF Contains(df.columns, "pair") THEN Column(df, "pair") ELSE df.index
  IN IF pairs = <<>> THEN [exc |-> "ValueError", df |-> df]
     ELSE LET name == [i \in 1..Len(pairs) |-> pairs[i][1]]
              tournament == [i \in 1..Len(pairs) |->
                               IF as_str THEN tournament_str(pairs[i][2]) ELSE pairs[i][2]]
              t == insert0(df, "tournament", tournament)
          IN IF t.exc # "none" THEN t ELSE insert0(t.df, "name", name)

-----------------------------------------------------------------------------
(* metrics_per_era *)

NPairs(p) == Len(p.pairs)

AllNaN(n) == [i \in 1..n |-> NaN]

\* DataFrame.dropna(): how='any', a row goes when any of its cells is NaN
dropna(pdf) == SelectSeq(pdf, LAMBDA r : ~HasNaN(r.yhat))

NaNLabels == [t \in Range(tournament_all) |-> NaN]

Find(rows, idx) == CHOOSE i \in 1..Len(rows) : rows[i].idx = idx
Has(rows, idx) == \E i \in 1..Len(rows) : rows[i].idx = idx

Joined(idx, drow, yh) ==
  [idx |-> idx, era |-> drow.era, region |-> drow.region, y |-> drow.y, yhat |-> yh]

Unmatched == [era |-> NaN, region |-> NaN, y |-> NaNLabels]

\* pd.merge(data_df, yhats_df, left_index=True, right_index=True, how=how)
merge(data_df, yhats_df, how, n) ==
  CASE how = "left" ->
         [i \in 1..Len(data_df) |->
            Joined(data_df[i].idx, data_df[i],
                   IF Has(yhats_df, data_df[i].idx)
                   THEN yhats_df[Find(yhats_df, data_df[i].idx)].yhat
                   ELSE AllNaN(n))]
    [] how = "right" ->
         [i \in 1..Len(yhats_df) |->
            Joined(yhats_df[i].idx,
                   IF Has(data_df, yhats_df[i].idx)
                   THEN data_df[Find(data_df, yhats_df[i].idx)]
                   ELSE Unmatched,
                   yhats_df[i].yhat)]
    [] how = "inner" ->
         LET both == SelectSeq(data_df, LAMBDA r : Has(yhats_df, r.idx))
         IN [i \in 1..Len(both) |->
               Joined(both[i].idx, both[i], yhats_df[Find(yhats_df, both[i].idx)].yhat)]

\* variant: the two outer joins exchanged
JoinHowSwapped(join) ==
  CASE join = "data" -> "right"
    [] join = "yhat" -> "left"
    [] join = "inner" -> "inner"
    [] OTHER -> "unrecognized"

JoinHow(join) ==
  CASE join = "data" -> "left"
    [] join = "yhat" -> "right"
    [] join = "inner" -> "inner"
    [] OTHER -> "unrecognized"

\* variant: a pair that names a label-set keeps it
scoring_label_own(pair, tournament) == tournament_str(pair[2])

\* if tournament is None: the pair's own label-set, else the forced one
scoring_label(pair, tournament) ==
  IF tournament = None THEN tournament_str(pair[2]) ELSE tournament_str(tournament)

\* what a call leaves: the exception or the returned (metrics, regions), the
\* heap, and the values its locals yhats_df and tourni took
PerEraResult(exc, metrics, regions, scored, h, yhats_df) ==
  [exc |-> exc, metrics |-> metrics, regions |-> regions, scored |-> scored, heap |-> h,
   yhats_df |-> yhats_df]

\* Lists are objects on the heap.  `h` maps each list object to its items:
\* the default of metrics_per_era, the default of metrics_per_name, the
\* caller's list, and the lists the two functions build while they run.
\* columns = ['era', 'pair'] + columns: a new list, bound to the local name
bind_header(h, ref) == [h EXCEPT !["header"] = <<"era", "pair">> \o h[ref]]

\* body of `for pair in pairs` for one era: [exc, row, tourni]
era_pair_step(df_era, era, p, k, tournament, columns) ==
  LET pair == p.pairs[k]
      tourni == scoring_label(pair, tournament)
      y == [i \in 1..Len(df_era) |-> df_era[i].y[tourni]]
      yhat == [i \in 1..Len(df_era) |-> df_era[i].yhat[k]]
      m == calc_metrics_arrays(y, yhat, columns)
  IN [exc |-> m.exc,
      row |-> IF m.exc # "none" THEN <<>>
              ELSE [c \in {"era", "pair"} \cup Range(columns) |->
                      IF c = "era" THEN era
                      ELSE IF c = "pair" THEN pair
                      ELSE m.v[CHOOSE j \in 1..Len(columns) : columns[j] = c]],
      tourni |-> [era |-> era, pair |-> pair, tourni |-> tourni]]

\* body of `for era in unique_eras`: the steps of one era, in order
era_steps(df, era, p, tournament, columns, era_as_str) ==
  IF era_as_str /\ era \notin EraCodes
  THEN <<[exc |-> "KeyError", row |-> <<>>, tourni |-> <<>>]>>
  ELSE LET df_era == SelectSeq(df, LAMBDA r : r.era = era)
           shown == IF era_as_str THEN ERA_INT_TO_STR(era) ELSE era
       IN [k \in 1..NPairs(p) |-> era_pair_step(df_era, shown, p, k, tournament, columns)]

RECURSIVE Flatten(_)
Flatten(ss) == IF ss = <<>> THEN <<>> ELSE Head(ss) \o Flatten(Tail(ss))

\* the exception of the first step that raises, "none" when no step does
FirstExc(steps) ==
  IF \A i \in 1..Len(steps) : steps[i].exc = "none" THEN "none"
  ELSE steps[CHOOSE i \in 1..Len(steps) :
               /\ steps[i].exc # "none"
               /\ \A j \in 1..(i - 1) : steps[j].exc = "none"].exc

metrics_per_era(h, d, p, tournament, join, ref, era_as_str, region_as_str, split_pairs) ==
  IF JoinHow(join) = "unrecognized" THEN PerEraResult("ValueError", NoTable, <<>>, <<>>, h, <<>>)
  ELSE
    LET columns == h[ref]
        yhats_df == dropna(p.df)
        df == merge(d.df, yhats_df, JoinHow(join), NPairs(p))
        regions == unique([i \in 1..Len(df) |-> df[i].region])
    IN IF region_as_str /\ \E i \in 1..Len(regions) : regions[i] \notin RegionCodes
       THEN PerEraResult("KeyError", NoTable, <<>>, <<>>, h, yhats_df)
       ELSE
         LET regs == IF region_as_str
                     THEN [i \in 1..Len(regions) |-> REGION_INT_TO_STR(regions[i])]
                     ELSE regions
             unique_eras == unique([i \in 1..Len(df) |-> df[i].era])
             steps == Flatten([e \in 1..Len(unique_eras) |->
                         era_steps(df, unique_eras[e], p, tournament, columns, era_as_str)])
             exc == FirstExc(steps)
         IN IF exc # "none" THEN PerEraResult(exc, NoTable, <<>>, <<>>, h, yhats_df)
            ELSE
              LET h2 == bind_header(h, ref)
                  metrics == DataFrame(h2["header"],
                                       [i \in 1..Len(steps) |-> i - 1],
                                       [i \in 1..Len(steps) |-> steps[i].row])
                  scored == [i \in 1..Len(steps) |-> steps[i].tourni]
              IN IF ~split_pairs THEN PerEraResult("none", metrics, regs, scored, h2, yhats_df)
                 ELSE LET s == add_split_pairs(metrics, TRUE)
                      IN IF s.exc # "none" THEN PerEraResult(s.exc, NoTable, <<>>, <<>>, h2, yhats_df)
                         ELSE PerEraResult("none", s.df, regs, scored, h2, yhats_df)

-----------------------------------------------------------------------------
(* metrics_per_name *)

skip == {"sharpe", "consis"}

\* variant: logloss appended without looking for it in cols
per_era_columns_append(columns) ==
  LET cols == FilterSeq(columns, Range(columns) \ {"sharpe", "consis"})
  IN IF Contains(columns, "sharpe") \/ Contains(columns, "consis")
     THEN Append(cols, "logloss")
     ELSE cols

\* cols = [c for c in columns if c not in skip], then the appended logloss
per_era_columns(columns) ==
  LET cols == FilterSeq(columns, Range(columns) \ skip)
  IN IF Contains(columns, "sharpe") \/ Contains(columns, "consis")
     THEN IF ~Contains(cols, "logloss") THEN Append(cols, "logloss") ELSE cols
     ELSE cols

\* every pair that can label a prediction column, in sorted (tuple) order
AllPairsSorted == << <<"alpha", "1">>, <<"alpha", "2">>, <<"zeta", "1">>, <<"zeta", "2">> >>

\* sorted group keys of groupby('pair') / sorted columns of the pivot
SortedPairs(S) == FilterSeq(AllPairsSorted, S)

\* index of the pivot: the distinct eras, in order
RECURSIVE SortedEras(_)
SortedEras(S) ==
  IF S = {} THEN <<>>
  ELSE LET real == S \ {NaN}
           lo == IF real # {} THEN CHOOSE x \in real : \A z \in real : x <= z ELSE NaN
       IN <<lo>> \o SortedEras(S \ {lo})

\* mpe.pivot(index='era', columns='pair', values='logloss')
pivot_logloss(mpe) ==
  [index |-> SortedEras(Range(Column(mpe, "era"))),
   columns |-> SortedPairs(Range(Column(mpe, "pair"))),
   cell |-> [k \in {<<mpe.rows[i]["era"], mpe.rows[i]["pair"]>> : i \in 1..Len(mpe.rows)} |->
               mpe.rows[CHOOSE i \in 1..Len(mpe.rows) :
                          <<mpe.rows[i]["era"], mpe.rows[i]["pair"]>> = k]["logloss"]]]

PivotColumn(pivot, pair) ==
  [e \in 1..Len(pivot.index) |-> pivot.cell[<<pivot.index[e], pair>>]]

\* Series.mean(): NaN cells are skipped; all NaN gives NaN
nanmean(s) ==
  LET real == SelectSeq(s, LAMBDA x : x # NaN)
  IN IF real = <<>> THEN NaN ELSE SumSeq(real) \div Len(real)

\* mpe.groupby('pair').mean()[col] for one pair
group_mean(mpe, pair, col) ==
  nanmean(Column(DataFrame(mpe.columns, <<>>,
                           SelectSeq(mpe.rows, LAMBDA r : r["pair"] = pair)), col))

\* variant: the mean taken over the eras with a defined log-loss only
consis_skipna(pivot, pair) ==
  LET col == SelectSeq([e \in 1..Len(pivot.index) |-> pivot.cell[<<pivot.index[e], pair>>]],
                       LAMBDA x : x # NaN)
  IN <<Cardinality({e \in 1..Len(col) : col[e] < LOGLOSS_BENCHMARK}), Len(col)>>

\* (pivot < LOGLOSS_BENCHMARK).mean(axis=0) for one pair: NaN < x is False
consis(pivot, pair) ==
  LET col == PivotColumn(pivot, pair)
  IN <<Cardinality({e \in 1..Len(col) : col[e] # NaN /\ col[e] < LOGLOSS_BENCHMARK}),
       Len(col)>>

\* (LOGLOSS_BENCHMARK - pivot).mean(axis=0) / pivot.std(axis=0) for one pair,
\* as <<mean, std>> in thousandths; NaN with fewer than two defined eras
sharpe(pivot, pair) ==
  LET real == SelectSeq(PivotColumn(pivot, pair), LAMBDA x : x # NaN)
      k == Len(real)
      s == SumSeq(real)
      sq == SumSeq([i \in 1..k |-> real[i] * real[i]])
  IN IF k < 2 THEN NaN
     ELSE <<(k * LOGLOSS_BENCHMARK - s) \div k, Isqrt((k * sq - s * s) \div (k * (k - 1)))>>

\* one pass of `for col in columns` for one pair
\* (`pivot` is bound only when 'logloss' was among cols)
summary_cell(mpe, pivoted, pivot, pair, col) ==
  CASE col \in skip /\ ~pivoted -> Raise("NameError")
    [] col = "consis" -> Value(consis(pivot, pair))
    [] col = "sharpe" -> Value(sharpe(pivot, pair))
    [] col \in {"logloss", "auc", "acc", "ystd"} -> Value(group_mean(mpe, pair, col))
    [] OTHER -> Raise("ValueError")

PerNameResult(exc, metrics, info, cols, pivoted, mpe, h) ==
  [exc |-> exc, metrics |-> metrics, info |-> info, cols |-> cols,
   pivoted |-> pivoted, mpe |-> mpe, heap |-> h]

\* variant: cols is the caller's list itself, edited in place
build_cols_alias(h, ref) ==
  [h EXCEPT ![ref] = per_era_columns(h[ref]), !["cols"] = per_era_columns(h[ref])]

\* cols = [...] is a new list; cols.append('logloss') changes that list
build_cols(h, ref) == [h EXCEPT !["cols"] = per_era_columns(h[ref])]

NoInfo == [era |-> <<>>, region |-> <<>>]

\* the function after its call of metrics_per_era, which left r
summarize(h1, ref, r, era_as_str, region_as_str, split_pairs) ==
  LET columns == h1[ref]
      cols == h1["cols"]
      mpe == r.metrics
      eras == unique(Column(mpe, "era"))
      fail(e) == PerNameResult(e, NoTable, NoInfo, cols, FALSE, NoTable, r.heap)
  IN IF r.exc # "none" THEN fail(r.exc)
     ELSE IF era_as_str /\ \E i \in 1..Len(eras) : eras[i] \notin EraCodes
     THEN fail("KeyError")
     ELSE IF region_as_str /\ \E i \in 1..Len(r.regions) : r.regions[i] \notin RegionCodes
     THEN fail("KeyError")
     ELSE
       LET info == [era |-> IF era_as_str
                            THEN [i \in 1..Len(eras) |-> ERA_INT_TO_STR(eras[i])]
                            ELSE eras,
                    region |-> IF region_as_str
                               THEN [i \in 1..Len(r.regions) |->
                                       REGION_INT_TO_STR(r.regions[i])]
                               ELSE r.regions]
           pivoted == Contains(cols, "logloss")
           pivot == IF pivoted THEN pivot_logloss(mpe) ELSE <<>>
           index == SortedPairs(Range(Column(mpe, "pair")))
           cells(j) == summary_cell(mpe, pivoted, pivot, index[1], columns[j])
       IN IF \E j \in 1..Len(columns) : cells(j).exc # "none"
          THEN fail(cells(CHOOSE j \in 1..Len(columns) :
                            /\ cells(j).exc # "none"
                            /\ \A i \in 1..(j - 1) : cells(i).exc = "none").exc)
          ELSE
            LET metrics ==
                  DataFrame(columns, index,
                            [i \in 1..Len(index) |->
                               [c \in Range(columns) |->
                                  summary_cell(mpe, pivoted, pivot, index[i], c).v]])
            IN IF ~split_pairs
               THEN PerNameResult("none", metrics, info, cols, pivoted, mpe, r.heap)
               ELSE LET s == add_split_pairs(metrics, TRUE)
                    IN IF s.exc # "none" THEN fail(s.exc)
                       ELSE PerNameResult("none", s.df, info, cols, pivoted, mpe, r.heap)

metrics_per_name(h, d, p, tournament, join, ref, era_as_str, region_as_str, split_pairs) ==
  LET h1 == build_cols(h, ref)
  IN summarize(h1, ref,
               metrics_per_era(h1, d, p, tournament, join, "cols", FALSE, FALSE, TRUE),
               era_as_str, region_as_str, split_pairs)

-----------------------------------------------------------------------------
(* Inputs of metrics_per_era / metrics_per_name *)

\* columns of prediction.df, in the order the prediction holds them
PAIRS == << <<"zeta", "1">>, <<"alpha", "2">> >>

\* the two label-sets of a row are complementary
Labels(v) == [t \in Range(tournament_all) |-> IF t = "bernie" THEN v ELSE 1 - v]

RegionOf(idx) == (idx % 3) + 1

DataRow(idx, era, v) ==
  [idx |-> idx, era |-> era, region |-> RegionOf(idx), y |-> Labels(v), cluster |-> 0]

PredRow(idx, yhat) == [idx |-> idx, yhat |-> yhat]

\* join scenarios: each index row is in the dataset, in the prediction or in
\* both; a prediction row is complete, partly observed or unobserved
JoinCells == {<<750, 250>>, <<750, NaN>>, <<NaN, NaN>>}
JoinRowOptions ==
  [where : {"data"}, era : {1, 2}, v : {1}, yhat : {<<NaN, NaN>>}]
    \cup [where : {"pred"}, era : {NaN}, v : {NaN}, yhat : JoinCells]
    \cup [where : {"both"}, era : {1, 2}, v : {1}, yhat : JoinCells]

JoinScenario(f) ==
  [data |-> [df |-> LET in == SelectSeq([i \in 1..MaxRow |-> i],
                                         LAMBDA i : f[i].where \in {"data", "both"})
                    IN [k \in 1..Len(in) |-> DataRow(in[k], f[in[k]].era, f[in[k]].v)]],
   prediction |->
     [pairs |-> PAIRS,
      df |-> LET in == SelectSeq([i \in 1..MaxRow |-> i],
                                 LAMBDA i : f[i].where \in {"pred", "both"})
             IN [k \in 1..Len(in) |-> PredRow(in[k], f[in[k]].yhat)]]]

\* scoring scenarios: every era holds two rows, present on both sides
Blocks ==
  { << <<1, 750, 250>>, <<0, 250, 750>> >>,
    << <<1, 250, 500>>, <<0, 750, 500>> >>,
    << <<1, 500, 750>>, <<0, 500, 250>> >>,
    << <<1, 750, 250>>, <<1, 750, 250>> >> }

ScoreScenario(g) ==
  LET era(i) == (i + 1) \div 2
      cell(i) == g[era(i)][2 - (i % 2)]
  IN [data |-> [df |-> [i \in 1..(2 * MaxEra) |-> DataRow(i, era(i), cell(i)[1])]],
      prediction |->
        [pairs |-> PAIRS,
         df |-> [i \in 1..(2 * MaxEra) |-> PredRow(i, <<cell(i)[2], cell(i)[3]>>)]]]

Scenarios ==
  {JoinScenario(f) : f \in [1..MaxRow -> JoinRowOptions]}
    \cup {ScoreScenario(g) : g \in [1..MaxEra -> Blocks]}

DefaultColumns == <<"logloss", "auc", "acc", "ystd">>

\* statistic lists a caller passes
CallerLists ==
  { <<"logloss", "consis", "sharpe">>,
    <<"consis", "auc">>,
    <<"ymin", "ymax", "ymean", "length", "logloss_pass">>,
    <<"ystd", "bogus">> }

Joins == {"data", "yhat", "inner", "outer"}
Tournaments == {None, "2"}

\* era_as_str / region_as_str (rendered together or not at all), split_pairs
Flags ==
  { [era_as_str |-> FALSE, region_as_str |-> FALSE, split_pairs |-> TRUE],
    [era_as_str |-> FALSE, region_as_str |-> FALSE, split_pairs |-> FALSE],
    [era_as_str |-> TRUE, region_as_str |-> TRUE, split_pairs |-> TRUE] }

\* the `columns` argument: left out (the default list) or a list of the caller
ColumnArgs ==
  {[given |-> FALSE, list |-> <<>>]} \cup [given : {TRUE}, list : CallerLists]

-----------------------------------------------------------------------------
(* State machine: the caller is idle, makes one call, sees it return.      *)

NoCall == [op |-> "none"]
NoRet == [exc |-> "none"]
NoArrays == [y |-> <<>>, yhat |-> <<>>]
NoData == [df |-> <<>>]
NoPrediction == [pairs |-> <<>>, df |-> <<>>]

InitHeap ==
  [default_per_era |-> DefaultColumns, default_per_name |-> DefaultColumns,
   caller |-> <<>>, cols |-> <<>>, header |-> <<>>]

\* the caller builds the list it passes; no argument means the default object
PassColumns(h, arg, default) ==
  IF ~arg.given THEN [heap |-> h, ref |-> default]
  ELSE [heap |-> [h EXCEPT !["caller"] = arg.list], ref |-> "caller"]

Init ==
  /\ \E sc \in Scenarios : data = sc.data /\ prediction = sc.prediction
  /\ heap = InitHeap
  /\ arrays = NoArrays
  /\ frame = NoTable
  /\ pc = "idle"
  /\ call = NoCall
  /\ ret = NoRet

MetricsPerEraCall ==
  /\ pc = "idle"
  /\ \E join \in Joins, tournament \in Tournaments, arg \in ColumnArgs, fl \in Flags :
       LET a == PassColumns(heap, arg, "default_per_era")
           r == metrics_per_era(a.heap, data, prediction, tournament, join, a.ref,
                                fl.era_as_str, fl.region_as_str, fl.split_pairs)
       IN /\ call' = [op |-> "metrics_per_era", tournament |-> tournament, join |-> join,
                      ref |-> a.ref, columns |-> a.heap[a.ref], flags |-> fl]
          /\ ret' = r
          /\ heap' = r.heap
  /\ pc' = "returned"
  /\ UNCHANGED <<data, prediction, arrays, frame>>

MetricsPerNameCall ==
  /\ pc = "idle"
  /\ \E join \in Joins, tournament \in Tournaments, arg \in ColumnArgs, fl \in Flags :
       LET a == PassColumns(heap, arg, "default_per_name")
           r == metrics_per_name(a.heap, data, prediction, tournament, join, a.ref,
                                 fl.era_as_str, fl.region_as_str, fl.split_pairs)
       IN /\ call' = [op |-> "metrics_per_name", tournament |-> tournament, join |-> join,
                      ref |-> a.ref, columns |-> a.heap[a.ref], flags |-> fl]
          /\ ret' = r
          /\ heap' = r.heap
  /\ pc' = "returned"
  /\ UNCHANGED <<data, prediction, arrays, frame>>

\* the call is over: its local lists and the list passed to it are gone
Return ==
  /\ pc = "returned"
  /\ pc' = "idle"
  /\ call' = NoCall
  /\ ret' = NoRet
  /\ heap' = [heap EXCEPT !["cols"] = <<>>, !["header"] = <<>>, !["caller"] = <<>>]
  /\ UNCHANGED <<data, prediction, arrays, frame>>

Next == MetricsPerEraCall \/ MetricsPerNameCall \/ Return

Spec == Init /\ [][Next]_vars

-----------------------------------------------------------------------------
(* Properties of metrics_per_era and metrics_per_name (Spec) *)

Returned(op) == pc = "returned" /\ call.op = op

PerEraStats ==
  {"logloss", "logloss_pass", "auc", "acc", "ymin", "ymax", "ymean", "ystd", "length"}
SummaryStats == {"consis", "sharpe", "logloss", "auc", "acc", "ystd"}

\* index labels of the prediction rows that reach the join
Surviving == {dropna(prediction.df)[i].idx : i \in 1..Len(dropna(prediction.df))}
DataIdx == {data.df[i].idx : i \in 1..Len(data.df)}
EraOf(idx) == data.df[Find(data.df, idx)].era

\* the distinct era values present after the join
ErasAfter(join) ==
  CASE join = "data" -> {EraOf(i) : i \in DataIdx}
    [] join = "inner" -> {EraOf(i) : i \in DataIdx \cap Surviving}
    [] join = "yhat" -> {IF i \in DataIdx THEN EraOf(i) ELSE NaN : i \in Surviving}

Shown(e) == IF call.flags.era_as_str THEN ERA_INT_TO_STR(e) ELSE e

\* C1: for join in {data, yhat, inner} the table metrics_per_era returns has
\* exactly one row for each (era, pair), era over the distinct eras present
\* after that join and pair over the prediction columns; any other join
\* value raises ValueError and no table is returned.
C1_OneRowPerEraPair ==
  Returned("metrics_per_era") =>
    /\ call.join \notin {"data", "yhat", "inner"} =>
         ret.exc = "ValueError" /\ ret.metrics = NoTable
    /\ call.join \in {"data", "yhat", "inner"} /\ ret.exc = "none" =>
         LET rows == ret.metrics.rows
             want == {<<Shown(e), pr>> : e \in ErasAfter(call.join),
                                         pr \in Range(prediction.pairs)}
         IN /\ {<<rows[i]["era"], rows[i]["pair"]>> : i \in 1..Len(rows)} = want
            /\ Len(rows) = Cardinality(want)

C1_Witness ==
  /\ Returned("metrics_per_era") /\ call.join = "yhat" /\ ret.exc = "none"
  /\ Len(ret.metrics.rows) = 4
  /\ \E i \in 1..Len(ret.metrics.rows) : ret.metrics.rows[i]["era"] = NaN

C1_WitnessBadJoin ==
  Returned("metrics_per_era") /\ call.join = "outer" /\ ret.exc = "ValueError"

\* C2: whenever the requested statistic list holds a name that is no known
\* statistic, metrics_per_era and metrics_per_name raise ValueError and
\* produce no rows, whatever the dataset and prediction.
C2_UnknownStatisticRaises ==
  /\ Returned("metrics_per_era") /\ Range(call.columns) \ PerEraStats # {} =>
       ret.exc = "ValueError" /\ ret.metrics = NoTable
  /\ Returned("metrics_per_name") /\ Range(call.columns) \ SummaryStats # {} =>
       ret.exc = "ValueError" /\ ret.metrics = NoTable

\* C4: a prediction row is dropped before the join exactly when all of its
\* cells are NaN; a row with at least one prediction reaches the join.
C4_DropOnlyUnobservedRows ==
  Returned("metrics_per_era") /\ call.join \in {"data", "yhat", "inner"} =>
    {ret.yhats_df[i].idx : i \in 1..Len(ret.yhats_df)}
      = {prediction.df[i].idx : i \in
           {j \in 1..Len(prediction.df) : Range(prediction.df[j].yhat) # {NaN}}}

\* C5: in one metrics_per_era call the label column is chosen by one rule for
\* all rows: with tournament None each pair is scored against the label-set
\* of its own identifier, with a tournament given every pair in every era is
\* scored against that one label-set.
C5_OneLabelRulePerCall ==
  Returned("metrics_per_era") /\ ret.exc = "none" =>
    /\ Len(ret.scored) = Len(ret.metrics.rows)
    /\ \A i \in 1..Len(ret.scored) :
         /\ ret.scored[i].era = ret.metrics.rows[i]["era"]
         /\ ret.scored[i].pair = ret.metrics.rows[i]["pair"]
         /\ call.tournament = None =>
              ret.scored[i].tourni = tournament_str(ret.scored[i].pair[2])
         /\ call.tournament # None =>
              ret.scored[i].tourni = tournament_str(call.tournament)

C5_Witness ==
  /\ Returned("metrics_per_era") /\ ret.exc = "none" /\ call.tournament = "2"
  /\ \E i, j \in 1..Len(ret.scored) :
       /\ ret.scored[i].era # ret.scored[j].era
       /\ ret.scored[i].pair[2] = "1"
       /\ ret.scored[i].tourni = "elizabeth"
       /\ ret.scored[j].tourni = "elizabeth"

C5_WitnessDefault ==
  /\ Returned("metrics_per_era") /\ ret.exc = "none" /\ call.tournament = None
  /\ {ret.scored[i].tourni : i \in 1..Len(ret.scored)} = {"bernie", "elizabeth"}

Count(seq, x) == Cardinality({i \in 1..Len(seq) : seq[i] = x})

\* C6: the list metrics_per_name passes to the per-era computation is the
\* requested list without 'sharpe' and 'consis', in order, with 'logloss'
\* appended once exactly when 'sharpe' or 'consis' was requested and 'logloss'
\* was not; 'logloss' is never there twice, and the log-loss pivot exists
\* whenever a derived statistic is computed.
C6_PerEraColumns ==
  Returned("metrics_per_name") =>
    LET req == call.columns
        cols == ret.cols
        derived == Range(req) \cap {"sharpe", "consis"} # {}
        kept == SelectSeq(req, LAMBDA c : c # "sharpe" /\ c # "consis")
        added == derived /\ Count(req, "logloss") = 0
    IN /\ cols = IF added THEN kept \o <<"logloss">> ELSE kept
       /\ Count(cols, "logloss") <= 1
       /\ ret.exc # "NameError"
       /\ derived /\ ret.exc = "none" => ret.pivoted /\ Count(cols, "logloss") = 1

C6_WitnessAppended ==
  /\ Returned("metrics_per_name") /\ ret.exc = "none"
  /\ call.columns = <<"consis", "auc">> /\ ret.cols = <<"auc", "logloss">>

C6_WitnessNotDuplicated ==
  /\ Returned("metrics_per_name") /\ ret.exc = "none"
  /\ call.columns = <<"logloss", "consis", "sharpe">> /\ ret.cols = <<"logloss">>

\* per-era log-loss values of one pair, one per row of the per-era table
EraLogloss(mpe, pair) ==
  LET rows == SelectSeq(mpe.rows, LAMBDA r : r["pair"] = pair)
  IN [i \in 1..Len(rows) |-> rows[i]["logloss"]]

\* C7: for every pair, 'consis' from metrics_per_name is the number of eras
\* whose per-era log-loss for the pair is strictly below 0.693, divided by
\* the number of eras in the per-era table; an era whose log-loss equals the
\* benchmark or is undefined does not pass.
C7_Consis ==
  Returned("metrics_per_name") /\ ret.exc = "none" /\ Contains(call.columns, "consis") =>
    LET m == ret.metrics
        eras == Range(Column(ret.mpe, "era"))
    IN /\ Range(m.index) = Range(prediction.pairs)
       /\ \A i \in 1..Len(m.rows) :
            LET ll == EraLogloss(ret.mpe, m.index[i])
                passing == {e \in 1..Len(ll) : ll[e] # NaN /\ ll[e] < LOGLOSS_BENCHMARK}
            IN m.rows[i]["consis"] = <<Cardinality(passing), Cardinality(eras)>>

\* one era passes, one era is undefined or at the benchmark, one fails
C7_Witness ==
  /\ Returned("metrics_per_name") /\ ret.exc = "none" /\ Contains(call.columns, "consis")
  /\ \E i \in 1..Len(ret.metrics.rows) :
       /\ ret.metrics.rows[i]["consis"] = <<1, 2>>
       /\ \E e \in 1..2 : EraLogloss(ret.mpe, ret.metrics.index[i])[e] \in {NaN, 693}

C7_WitnessMixed ==
  /\ Returned("metrics_per_name") /\ ret.exc = "none" /\ Contains(call.columns, "consis")
  /\ \E i \in 1..Len(ret.metrics.rows) :
       /\ ret.metrics.rows[i]["consis"] = <<1, 2>>
       /\ \E e \in 1..2 : EraLogloss(ret.mpe, ret.metrics.index[i])[e] > 693

\* C10: after any sequence of metrics_per_era / metrics_per_name calls the
\* caller's statistic list and the shared default list
\* ['logloss', 'auc', 'acc', 'ystd'] of both functions are unchanged.
C10_ListsUnchanged ==
  /\ heap["default_per_era"] = <<"logloss", "auc", "acc", "ystd">>
  /\ heap["default_per_name"] = <<"logloss", "auc", "acc", "ystd">>
  /\ pc = "returned" /\ call.ref = "caller" => heap["caller"] = call.columns

C10_Witness ==
  /\ Returned("metrics_per_name") /\ ret.exc = "none" /\ call.ref = "caller"
  /\ Contains(call.columns, "consis") /\ ~Contains(call.columns, "logloss")
  /\ heap["cols"] # heap["caller"] /\ Contains(heap["cols"], "logloss")
  /\ heap["header"] = <<"era", "pair">> \o heap["cols"]

-----------------------------------------------------------------------------
(* calc_metrics_arrays called directly on two arrays (SpecArrays) *)

ArrayInputs ==
  UNION {[y : [1..n -> {0, 1, NaN}], yhat : [1..n -> YhatVals \cup {NaN}]] : n \in 1..MaxLen}

ArrayColumnLists ==
  { <<"logloss", "logloss_pass", "auc", "acc", "ymin", "ymax", "ymean", "ystd", "length">>,
    <<"acc", "length">>,
    <<"logloss", "bogus", "auc">> }

InitArrays ==
  /\ arrays \in ArrayInputs
  /\ data = NoData
  /\ prediction = NoPrediction
  /\ heap = InitHeap
  /\ frame = NoTable
  /\ pc = "idle"
  /\ call = NoCall
  /\ ret = NoRet

CalcMetricsArraysCall ==
  /\ pc = "idle"
  /\ \E columns \in ArrayColumnLists :
       /\ call' = [op |-> "calc_metrics_arrays", columns |-> columns]
       /\ ret' = calc_metrics_arrays(arrays.y, arrays.yhat, columns)
  /\ pc' = "returned"
  /\ UNCHANGED <<data, prediction, arrays, frame, heap>>

NextArrays == CalcMetricsArraysCall \/ Return

SpecArrays == InitArrays /\ [][NextArrays]_vars

\* the value returned for statistic c
Stat(c) == ret.v[CHOOSE j \in 1..Len(call.columns) : call.columns[j] = c]

Asked(c) == Contains(call.columns, c)

\* y holds one class only: all 0 or all 1
OneClass == Range(arrays.y) = {0} \/ Range(arrays.y) = {1}

-----------------------------------------------------------------------------
(* add_split_pairs called on a table (SpecSplit) *)

\* (name, label-set) pairs: the label-set as a code or as a name already
PairLabels == {"alpha", "zeta"} \X {"1", "2", "bernie"}

PairLists == UNION {[1..n -> PairLabels] : n \in 0..MaxPairRows}

\* a table with a 'pair' column, as metrics_per_era builds it
PairColumnFrame(pairs) ==
  DataFrame(<<"pair", "logloss">>, [i \in 1..Len(pairs) |-> i - 1],
            [i \in 1..Len(pairs) |-> [pair |-> pairs[i], logloss |-> 500 + i]])

\* a table indexed by pair, as metrics_per_name builds it
PairIndexFrame(pairs) ==
  DataFrame(<<"logloss">>, pairs, [i \in 1..Len(pairs) |-> [logloss |-> 500 + i]])

InitSplit ==
  /\ \E pairs \in PairLists : frame \in {PairColumnFrame(pairs), PairIndexFrame(pairs)}
  /\ arrays = NoArrays
  /\ data = NoData
  /\ prediction = NoPrediction
  /\ heap = InitHeap
  /\ pc = "idle"
  /\ call = NoCall
  /\ ret = NoRet

\* the frame is the caller's object: what insert() did to it stays
AddSplitPairsCall ==
  /\ pc = "idle"
  /\ \E as_str \in BOOLEAN :
       LET r == add_split_pairs(frame, as_str)
       IN /\ call' = [op |-> "add_split_pairs", as_str |-> as_str, df |-> frame,
                      pairs |-> IF Contains(frame.columns, "pair")
                                THEN Column(frame, "pair") ELSE frame.index]
          /\ ret' = r
          /\ frame' = r.df
  /\ pc' = "returned"
  /\ UNCHANGED <<data, prediction, arrays, heap>>

NextSplit == AddSplitPairsCall \/ Return

SpecSplit == InitSplit /\ [][NextSplit]_vars

Zipped(df) == [i \in 1..Len(df.rows) |-> <<df.rows[i]["name"], df.rows[i]["tournament"]>>]

\* C8 as claimed: add_split_pairs on a table whose 'pair' column (or index)
\* holds (name, label-set) pairs returns a table whose first two columns are
\* 'name' and 'tournament', and zipping them row by row gives back the
\* original pair list exactly, in the same order (stated here for a table
\* that has at least one row and no such column yet).
C8_RoundTripExact ==
  Returned("add_split_pairs") /\ call.pairs # <<>>
      /\ Range(call.df.columns) \cap {"name", "tournament"} = {} =>
    /\ ret.exc = "none"
    /\ SubSeq(ret.df.columns, 1, 2) = <<"name", "tournament">>
    /\ Zipped(ret.df) = call.pairs

\* C8 as amended: for a table with at least one row and no 'name' or
\* 'tournament' column yet, the returned table has 'name' and 'tournament'
\* as its first two columns, and zipping them row by row gives, in the same
\* order, each original pair with its label-set rendered as the label-set's
\* name (as_str, the default) or left as it is (as_str False); so the zip is
\* the original list exactly when as_str is False or every label-set is a
\* name already.
C8_RoundTrip ==
  Returned("add_split_pairs") /\ call.pairs # <<>>
      /\ Range(call.df.columns) \cap {"name", "tournament"} = {} =>
    /\ ret.exc = "none"
    /\ SubSeq(ret.df.columns, 1, 2) = <<"name", "tournament">>
    /\ SubSeq(ret.df.columns, 3, Len(ret.df.columns)) = call.df.columns
    /\ Len(ret.df.rows) = Len(call.pairs)
    /\ \A i \in 1..Len(call.pairs) :
         /\ Zipped(ret.df)[i][1] = call.pairs[i][1]
         /\ Zipped(ret.df)[i][2] =
              IF ~call.as_str \/ call.pairs[i][2] \in TournamentNames
              THEN call.pairs[i][2]
              ELSE IF call.pairs[i][2] = "1" THEN "bernie" ELSE "elizabeth"
    /\ (Zipped(ret.df) = call.pairs) <=>
         (~call.as_str \/ \A i \in 1..Len(call.pairs) : call.pairs[i][2] \in TournamentNames)

\* an index of three pairs, not in sorted order, split with the default
C8_Witness ==
  /\ Returned("add_split_pairs") /\ call.as_str /\ ret.exc = "none"
  /\ call.pairs = << <<"zeta", "2">>, <<"alpha", "bernie">>, <<"zeta", "1">> >>
  /\ ~Contains(call.df.columns, "pair")
  /\ Zipped(ret.df) = << <<"zeta", "elizabeth">>, <<"alpha", "bernie">>, <<"zeta", "bernie">> >>

-----------------------------------------------------------------------------
(* concordance (SpecConcord).  A distance is the exact fraction <<n, d>>;   *)
(* <<0, 0>> is NaN, the mean of no values.                                  *)

FracNaN == <<0, 0>>
IsNaNFrac(p) == p[2] = 0
FracLess(p, q) == p[1] * q[2] < q[1] * p[2]
FracEq(p, q) == IsNaNFrac(p) = IsNaNFrac(q) /\ p[1] * q[2] = q[1] * p[2]
FracAdd(p, q) == <<p[1] * q[2] + q[1] * p[2], p[2] * q[2]>>

Abs(x) == IF x < 0 THEN -x ELSE x

\* scipy.stats.ks_2samp(a, b)[0]: the largest gap between the two empirical
\* distribution functions; an empty sample is rejected
ks_2samp(a, b) ==
  IF a = <<>> \/ b = <<>> THEN Raise("ValueError")
  ELSE LET below(s, x) == Cardinality({i \in 1..Len(s) : s[i] <= x})
           gap(x) == Abs(below(a, x) * Len(b) - below(b, x) * Len(a))
           pts == Range(a) \cup Range(b)
       IN Value(<<gap(CHOOSE x \in pts : \A z \in pts : gap(x) >= gap(z)),
                  Len(a) * Len(b)>>)

\* max(d) of a list of distances
FracMax(d) == d[CHOOSE i \in 1..Len(d) : \A j \in 1..Len(d) : ~FracLess(d[i], d[j])]

\* np.mean(ks)
RECURSIVE FracSum(_)
FracSum(ks) == IF ks = <<>> THEN <<0, 1>> ELSE FracAdd(Head(ks), FracSum(Tail(ks)))
FracMean(ks) ==
  IF ks = <<>> THEN FracNaN ELSE <<FracSum(ks)[1], FracSum(ks)[2] * Len(ks)>>

RECURSIVE SetToSeq(_)
SetToSeq(S) ==
  IF S = {} THEN <<>>
  ELSE LET x == CHOOSE x \in S : \A z \in S : x <= z IN <<x>> \o SetToSeq(S \ {x})

\* data[region]: the rows of one region
region_rows(d, region) == SelectSeq(d.df, LAMBDA r : REGION_INT_TO_STR(r.region) = region)

ConcRegions == <<"validation", "test", "live">>

\* yhats[r][:, i][clusters[r] == j]
cluster_yhat(d, p, r, i, j) ==
  LET rows == SelectSeq(region_rows(d, ConcRegions[r]), LAMBDA x : x.cluster = j)
  IN [k \in 1..Len(rows) |-> p.df[Find(p.df, rows[k].idx)].yhat[i]]

\* one pass of `for j in set(clusters[0])`: the three distances and their max
cluster_distance(d, p, i, j) ==
  LET yhat0 == cluster_yhat(d, p, 1, i, j)
      yhat1 == cluster_yhat(d, p, 2, i, j)
      yhat2 == cluster_yhat(d, p, 3, i, j)
      ks == <<ks_2samp(yhat0, yhat1), ks_2samp(yhat0, yhat2), ks_2samp(yhat2, yhat1)>>
  IN IF \E k \in 1..3 : ks[k].exc # "none" THEN Raise("ValueError")
     ELSE Value(FracMax([k \in 1..3 |-> ks[k].v]))

\* one pass of `for i in range(len(pairs))`: concord of pair i
pair_concord(d, p, i) ==
  LET js == SetToSeq({region_rows(d, "validation")[k].cluster :
                        k \in 1..Len(region_rows(d, "validation"))})
      ks == [k \in 1..Len(js) |-> cluster_distance(d, p, i, js[k])]
  IN IF \E k \in 1..Len(ks) : ks[k].exc # "none" THEN Raise("ValueError")
     ELSE Value(FracMean([k \in 1..Len(ks) |-> ks[k].v]))

\* sort_values('concord'): ascending, NaN last, the label moves with its row
Before(vals, i, j) ==
  \/ ~IsNaNFrac(vals[i]) /\ IsNaNFrac(vals[j])
  \/ ~IsNaNFrac(vals[i]) /\ ~IsNaNFrac(vals[j]) /\ FracLess(vals[i], vals[j])
  \/ IsNaNFrac(vals[i]) = IsNaNFrac(vals[j]) /\ ~FracLess(vals[i], vals[j])
       /\ ~FracLess(vals[j], vals[i]) /\ i < j

RECURSIVE SortOrder(_, _)
SortOrder(vals, S) ==
  IF S = {} THEN <<>>
  ELSE LET m == CHOOSE i \in S : \A j \in S \ {i} : Before(vals, i, j)
       IN <<m>> \o SortOrder(vals, S \ {m})

\* variant: the values sorted, the labels left where they were
sort_values_only(df) ==
  LET vals == Column(df, "concord")
      order == SortOrder(vals, 1..Len(vals))
  IN DataFrame(df.columns, df.index, [k \in 1..Len(order) |-> df.rows[order[k]]])

sort_values(df) ==
  LET vals == Column(df, "concord")
      order == SortOrder(vals, 1..Len(vals))
  IN DataFrame(df.columns, [k \in 1..Len(order) |-> df.index[order[k]]],
               [k \in 1..Len(order) |-> df.rows[order[k]]])

concordance(d, p) ==
  LET pairs == p.pairs
      rows == Flatten([r \in 1..3 |-> region_rows(d, ConcRegions[r])])
  IN IF \E k \in 1..Len(rows) : ~Has(p.df, rows[k].idx)
     THEN [exc |-> "KeyError", df |-> NoTable]
     ELSE LET c == [i \in 1..Len(pairs) |-> pair_concord(d, p, i)]
          IN IF \E i \in 1..Len(pairs) : c[i].exc # "none"
             THEN [exc |-> "ValueError", df |-> NoTable]
             ELSE [exc |-> "none",
                   df |-> sort_values(DataFrame(<<"concord">>, pairs,
                            [i \in 1..Len(pairs) |-> [concord |-> c[i].v]]))]

\* the validation region holds MaxConcRow rows, test and live two rows each;
\* every row lies in one of two clusters and has a prediction for each pair
ConcRowOptions ==
  { [cluster |-> 0, yhat |-> <<250, 750>>], [cluster |-> 0, yhat |-> <<750, 500>>],
    [cluster |-> 0, yhat |-> <<750, 750>>], [cluster |-> 1, yhat |-> <<250, 500>>] }

ConcRegionCode(i) ==
  IF i <= MaxConcRow THEN 1 ELSE IF i <= MaxConcRow + 2 THEN 2 ELSE 3

ConcScenario(f) ==
  [data |-> [df |-> [i \in DOMAIN f |->
                       [idx |-> i, era |-> 1, region |-> ConcRegionCode(i),
                        y |-> Labels(1), cluster |-> f[i].cluster]]],
   prediction |-> [pairs |-> PAIRS, df |-> [i \in DOMAIN f |-> PredRow(i, f[i].yhat)]]]

InitConcord ==
  /\ \E f \in [1..(MaxConcRow + 4) -> ConcRowOptions] :
       data = ConcScenario(f).data /\ prediction = ConcScenario(f).prediction
  /\ arrays = NoArrays
  /\ frame = NoTable
  /\ heap = InitHeap
  /\ pc = "idle"
  /\ call = NoCall
  /\ ret = NoRet

ConcordanceCall ==
  /\ pc = "idle"
  /\ call' = [op |-> "concordance"]
  /\ ret' = concordance(data, prediction)
  /\ pc' = "returned"
  /\ UNCHANGED <<data, prediction, arrays, frame, heap>>

NextConcord == ConcordanceCall \/ Return

SpecConcord == InitConcord /\ [][NextConcord]_vars

\* C9: the table concordance returns has exactly one row per prediction
\* pair, each labelled with its pair and holding that pair's own score (the
\* mean over the cluster ids of the validation region of the largest of the
\* three region-to-region distances), in ascending order of 'concord'.
C9_ConcordanceTable ==
  Returned("concordance") /\ ret.exc = "none" =>
    LET t == ret.df
        n == Len(prediction.pairs)
        pos(pr) == CHOOSE i \in 1..n : prediction.pairs[i] = pr
    IN /\ t.columns = <<"concord">>
       /\ Len(t.rows) = n /\ Len(t.index) = n
       /\ \A i \in 1..n : \E k \in 1..n : t.index[k] = prediction.pairs[i]
       /\ \A k \in 1..n :
            FracEq(t.rows[k]["concord"],
                   pair_concord(data, prediction, pos(t.index[k])).v)
       /\ \A k \in 1..(n - 1) :
            ~FracLess(t.rows[k + 1]["concord"], t.rows[k]["concord"])

\* the second pair has the smaller score, not zero, and comes first
\* two clusters in the validation region, both present in test and live
C9_WitnessTwoClusters ==
  /\ Returned("concordance") /\ ret.exc = "none"
  /\ Cardinality({data.df[i].cluster : i \in 1..MaxConcRow}) = 2
  /\ ret.df.index = <<prediction.pairs[2], prediction.pairs[1]>>
  /\ FracEq(ret.df.rows[2]["concord"], <<1, 2>>)

C9_Witness ==
  /\ Returned("concordance") /\ ret.exc = "none"
  /\ ret.df.index = <<prediction.pairs[2], prediction.pairs[1]>>
  /\ FracLess(ret.df.rows[1]["concord"], ret.df.rows[2]["concord"])
  /\ FracLess(<<0, 1>>, ret.df.rows[1]["concord"])

=============================================================================
